---- MODULE Spec2Model ----
(***************************************************************************)
(* A single species, single season neural occupancy model                  *)
(* (notebooks/simple-occupancy.ipynb): the data generator, the network's   *)
(* forward pass, the marginal likelihood of the training loop, the         *)
(* DataLoader and the loop itself.                                         *)
(*                                                                         *)
(* Numbers.  Probabilities live on a fixed-point grid of D = 2*Half levels *)
(* (the numerator a stands for a/D); 0 and D are the values a saturated    *)
(* sigmoid returns.  A logarithm is kept exactly, as the map from primes   *)
(* to exponents of the rational it is the logarithm of, over a divisor:    *)
(* [kind |-> "fin", e |-> (2 :> 3 @@ 5 :> -1), d |-> 2] is (3 log 2 - log 5)/2*)
(* so equal records are equal real numbers (logarithms of primes are       *)
(* linearly independent over the rationals).  -inf, +inf and nan are the   *)
(* IEEE values torch produces for log(0), -log(0) and 0 * inf.             *)
(***************************************************************************)
EXTENDS Integers, Sequences, FiniteSets, TLC

\* ---------------------------------------------------------------- bounds
\* Half the number of fixed-point levels of a probability (D = 2 * Half).
Half == 2
\* Largest magnitude of a network parameter on the integer grid.
MaxW == 1
\* Largest magnitude of a covariate on the integer grid (x is uniform on [-1, 1]).
MaxX == 1
\* Largest magnitude of a coefficient of the true response curves on the integer grid.
MaxCoef == 1
\* Largest number of sites n.
MaxN == 3
\* Largest number of sites n of two runs compared step by step.
TwinMaxN == 2
\* Largest number of epochs n_epoch.
MaxEpoch == 2
\* Largest number of survey occasions k of the simulated and of the fitted data.
MaxK == 1
\* Largest minibatch drawn for the loop body on concrete numbers.
MaxB == 2
\* Largest number of survey occasions k drawn for the loop body on concrete numbers.
LikMaxK == 2
\* Largest number of survey occasions k drawn for the sum over all counts.
PmfMaxK == 3

D == 2 * Half
Grid == 0..D
Interior == 1..(D - 1)
XGrid == (0 - MaxX)..MaxX
WGrid == (0 - MaxW)..MaxW

Max(a, b) == IF a >= b THEN a ELSE b
Min(a, b) == IF a <= b THEN a ELSE b

RECURSIVE Pow(_, _)
Pow(b, m) == IF m = 0 THEN 1 ELSE b * Pow(b, m - 1)

RECURSIVE Gcd(_, _)
Gcd(a, b) == IF b = 0 THEN a ELSE Gcd(b, a % b)

Abs(a) == IF a < 0 THEN 0 - a ELSE a

\* ------------------------------------------------- exact logarithms
\* The integer square root.
Isqrt(m) == CHOOSE r \in 0..m : r * r <= m /\ m < (r + 1) * (r + 1)

\* The least prime factor of an integer m >= 2.
LeastFactor(m) ==
    LET r == Isqrt(m)
    IN  IF \E d \in 2..r : m % d = 0
        THEN CHOOSE d \in 2..r : m % d = 0 /\ \A e \in 2..(d - 1) : m % e # 0
        ELSE m

\* The exponent map of an integer m >= 1.
RECURSIVE Factor(_)
Factor(m) ==
    IF m = 1 THEN <<>>
    ELSE LET d == LeastFactor(m)
             r == Factor(m \div d)
         IN  [q \in (DOMAIN r) \cup {d} |->
                 IF q = d THEN (IF d \in DOMAIN r THEN r[d] + 1 ELSE 1) ELSE r[q]]

ExpAt(e, q) == IF q \in DOMAIN e THEN e[q] ELSE 0

\* c1 * e1 + c2 * e2 on exponent maps, zero exponents dropped.
Combine(c1, e1, c2, e2) ==
    LET f(q) == c1 * ExpAt(e1, q) + c2 * ExpAt(e2, q)
    IN  [q \in {r \in (DOMAIN e1) \cup (DOMAIN e2) : f(r) # 0} |-> f(q)]

Fin(e) == [kind |-> "fin", e |-> e, d |-> 1]
NegInf == [kind |-> "ninf", e |-> <<>>, d |-> 1]
PosInf == [kind |-> "pinf", e |-> <<>>, d |-> 1]
NaN == [kind |-> "nan", e |-> <<>>, d |-> 1]
Zero == Fin(<<>>)

\* log(a / b) for integers a >= 0, b >= 1: torch.log of an exact rational.
LogQ(a, b) == IF a = 0 THEN NegInf ELSE Fin(Combine(1, Factor(a), 0 - 1, Factor(b)))

RECURSIVE ProdPos(_, _, _)
ProdPos(e, S, sign) ==
    IF S = {} THEN 1
    ELSE LET q == CHOOSE r \in S : TRUE
         IN  (IF sign * e[q] > 0 THEN Pow(q, sign * e[q]) ELSE 1)
             * ProdPos(e, S \ {q}, sign)

\* exp of a finite logarithm with divisor 1: the rational <<numerator, denominator>>.
ExpQ(u) == <<ProdPos(u.e, DOMAIN u.e, 1), ProdPos(u.e, DOMAIN u.e, 0 - 1)>>

\* IEEE addition of two logarithms (divisor 1).
Add(u, v) ==
    IF u.kind = "nan" \/ v.kind = "nan" THEN NaN
    ELSE IF u.kind = "fin" /\ v.kind = "fin" THEN Fin(Combine(1, u.e, 1, v.e))
    ELSE IF u.kind = "fin" THEN v
    ELSE IF v.kind = "fin" THEN u
    ELSE IF u.kind = v.kind THEN u
    ELSE NaN

\* IEEE product of a float32 mask value m (0 or 1) and a logarithm.
MulMask(m, u) ==
    IF u.kind = "nan" THEN NaN
    ELSE IF u.kind = "fin" THEN (IF m = 0 THEN Zero ELSE u)
    ELSE IF m = 0 THEN NaN
    ELSE u

\* log(exp(u) + exp(v)): torch.logsumexp over a row of two entries.
LogAddExp(u, v) ==
    IF u.kind = "nan" \/ v.kind = "nan" THEN NaN
    ELSE IF u.kind = "pinf" \/ v.kind = "pinf" THEN PosInf
    ELSE IF u.kind = "ninf" THEN v
    ELSE IF v.kind = "ninf" THEN u
    ELSE LET a == ExpQ(u)
             b == ExpQ(v)
         IN  LogQ(a[1] * b[2] + b[1] * a[2], a[2] * b[2])

\* -u.
Neg(u) ==
    IF u.kind = "fin" THEN [kind |-> "fin", e |-> Combine(0 - 1, u.e, 0, <<>>), d |-> u.d]
    ELSE IF u.kind = "ninf" THEN PosInf
    ELSE IF u.kind = "pinf" THEN NegInf
    ELSE NaN

RECURSIVE GcdAll(_, _, _)
GcdAll(e, S, g) ==
    IF S = {} THEN g
    ELSE LET q == CHOOSE r \in S : TRUE
         IN  GcdAll(e, S \ {q}, Gcd(g, Abs(e[q])))

\* u / m for a logarithm of divisor 1 and m >= 1, in lowest terms.
DivBy(u, m) ==
    IF u.kind # "fin" THEN u
    ELSE LET g == GcdAll(u.e, DOMAIN u.e, m)
         IN  [kind |-> "fin", e |-> [q \in DOMAIN u.e |-> u.e[q] \div g], d |-> m \div g]

\* ------------------------------------------------------------ tensors
\* A tensor of shape (B,) is T1(<<e1, .., eB>>); one of shape (R, C) is
\* T2(<<row1, .., rowR>>), each row a sequence of C entries.
T1(xs) == [nd |-> 1, v |-> xs]
T2(rows) == [nd |-> 2, v |-> rows]
Rows(t) == IF t.nd = 2 THEN Len(t.v) ELSE 1
Cols(t) == IF t.nd = 2 THEN Len(t.v[1]) ELSE Len(t.v)
At(t, r, c) == IF t.nd = 2 THEN t.v[r][c] ELSE t.v[c]
Numel(t) == Rows(t) * Cols(t)

\* A column tensor of shape (B, 1) from the sequence of its entries.
Column(xs) == T2([r \in 1..Len(xs) |-> <<xs[r]>>])

\* torch.cat((a, b), dim=1) of two tensors of shapes (R, Ca) and (R, Cb).
Cat1(a, b) == T2([r \in 1..Len(a.v) |-> a.v[r] \o b.v[r]])

RECURSIVE FoldLogAddExp(_)
FoldLogAddExp(row) ==
    IF Len(row) = 1 THEN row[1] ELSE LogAddExp(row[1], FoldLogAddExp(Tail(row)))

\* torch.logsumexp(t, dim=1) of a tensor of shape (R, C): dimension 1 is
\* reduced and not kept, the result has shape (R,).
LogSumExp1(t) == T1([r \in 1..Len(t.v) |-> FoldLogAddExp(t.v[r])])

RECURSIVE SumLog(_)
SumLog(row) == IF row = <<>> THEN Zero ELSE Add(row[1], SumLog(Tail(row)))

RECURSIVE Flatten(_)
Flatten(rows) == IF rows = <<>> THEN <<>> ELSE rows[1] \o Flatten(Tail(rows))

Entries(t) == IF t.nd = 2 THEN Flatten(t.v) ELSE t.v

\* torch.mean over every entry of a tensor of logarithms.
Mean(t) == DivBy(SumLog(Entries(t)), Numel(t))

\* ------------------------------------------------------- the network
\* Net (one hidden layer): fc1 = nn.Linear(1, HiddenWidth), fc2 =
\* nn.Linear(HiddenWidth, 2).  A layer is [weight |-> rows, bias |-> entries],
\* weight[j] the row of output j, every parameter on the integer grid WGrid.
HiddenWidth == 1

SeqsOf(S, m) == [1..m -> S]

Linears(nin, nout) == [weight : SeqsOf(SeqsOf(WGrid, nin), nout), bias : SeqsOf(WGrid, nout)]

Params == [fc1 : Linears(1, HiddenWidth), fc2 : Linears(HiddenWidth, 2)]

RECURSIVE Dot(_, _)
Dot(a, b) == IF a = <<>> THEN 0 ELSE a[1] * b[1] + Dot(Tail(a), Tail(b))

\* nn.Linear applied to one row of the input.
Linear(layer, row) == [j \in 1..Len(layer.weight) |-> Dot(layer.weight[j], row) + layer.bias[j]]

\* F.elu on the integer grid: v for v > 0, exp(v) - 1 rounded for v <= 0
\* (exp(-1) - 1 = -0.63 and everything below round to -1).
Elu(v) == IF v >= 0 THEN v ELSE 0 - 1

\* torch.sigmoid in fixed point: the numerator of round(D * sigmoid(t)), which
\* is Half + t between the two saturated values 0 (t <= -Half) and D (t >= Half).
Sigmoid(t) == Max(0, Min(D, Half + t))

\* Net.forward on a batch xb of shape (B, 1): the pair of column tensors
\* psi = output[:, [0]] and p = output[:, [1]], both of shape (B, 1).
Forward(params, xb) ==
    LET hidden(r) == [j \in 1..HiddenWidth |-> Elu(Linear(params.fc1, xb.v[r])[j])]
        output(r) == [j \in 1..2 |-> Sigmoid(Linear(params.fc2, hidden(r))[j])]
    IN  [psi |-> T2([r \in 1..Len(xb.v) |-> <<output(r)[1]>>]),
         p |-> T2([r \in 1..Len(xb.v) |-> <<output(r)[2]>>])]

\* ------------------------------------------- the marginal likelihood

RECURSIVE Factorial(_)
Factorial(m) == IF m = 0 THEN 1 ELSE m * Factorial(m - 1)

\* The binomial coefficient (exp of lgamma(m + 1) - lgamma(j + 1) - lgamma(m - j + 1)).
Binom(m, j) == Factorial(m) \div (Factorial(j) * Factorial(m - j))

\* torch.distributions.utils.clamp_probs: Binomial takes its logits from the
\* probabilities clamped to [eps, 1 - eps], eps the resolution of the number format.
ClampProbs(a) == Max(1, Min(D - 1, a))

\* A binomial log-probability that leaves out the binomial coefficient.
BinomialLogProbOfOneOrder(kk, a, yv) ==
    LogQ(Pow(ClampProbs(a), yv) * Pow(D - ClampProbs(a), kk - yv), Pow(D, kk))

\* Binomial(total_count=kk, probs=a/D).log_prob(yv).
BinomialLogProb(kk, a, yv) ==
    LET c == ClampProbs(a)
    IN  LogQ(Binom(kk, yv) * Pow(c, yv) * Pow(D - c, kk - yv), Pow(D, kk))

\* torch.log(psi_i) and torch.log(1 - psi_i), entry by entry.
LogPsi(a) == LogQ(a, D)
Log1mPsi(a) == LogQ(D - a, D)

\* The elementwise operations the notebook applies to tensors, by name.
Unary(op, v) ==
    CASE op[1] = "gt0"   -> IF v > 0 THEN 1 ELSE 0
      [] op[1] = "eq0"   -> IF v = 0 THEN 1 ELSE 0
      [] op[1] = "log"   -> LogPsi(v)
      [] op[1] = "log1m" -> Log1mPsi(v)
      [] op[1] = "curve" -> Sigmoid(op[2] + op[3] * v + op[4] * v * v)

Binary(op, u, v) ==
    CASE op[1] = "add"      -> Add(u, v)
      [] op[1] = "mul"      -> MulMask(u, v)
      [] op[1] = "times"    -> u * v
      [] op[1] = "log_prob" -> BinomialLogProb(op[2], u, v)

\* torch's broadcasting of an elementwise binary operation: shapes are aligned
\* from the last dimension, a dimension of size 1 is stretched, and a tensor of
\* shape (C,) counts as (1, C).
Broadcast(op, a, b) ==
    LET R == Max(Rows(a), Rows(b))
        C == Max(Cols(a), Cols(b))
        pick(t, r, c) == At(t, IF Rows(t) = 1 THEN 1 ELSE r, IF Cols(t) = 1 THEN 1 ELSE c)
        rows == [r \in 1..R |-> [c \in 1..C |-> Binary(op, pick(a, r, c), pick(b, r, c))]]
    IN  IF a.nd = 1 /\ b.nd = 1 THEN T1(rows[1]) ELSE T2(rows)

\* An elementwise unary operation.
Map(op, t) ==
    IF t.nd = 2 THEN T2([r \in 1..Len(t.v) |-> [c \in 1..Len(t.v[r]) |-> Unary(op, t.v[r][c])]])
    ELSE T1([c \in 1..Len(t.v) |-> Unary(op, t.v[c])])

\* (y_i > 0).to(dtype=torch.float32) and (y_i == 0).to(dtype=torch.float32).
DefinitelyPresent(yb) == Map(<<"gt0">>, yb)
MaybeAbsent(yb) == Map(<<"eq0">>, yb)

\* lp_present = torch.log(psi_i) + y_dist_if_present.log_prob(y_i)
LpPresent(kk, psib, pb, yb) ==
    Broadcast(<<"add">>, Map(<<"log">>, psib), Broadcast(<<"log_prob", kk>>, pb, yb))

\* lp_maybe_absent = torch.logsumexp(torch.cat((lp_present, torch.log(1 - psi_i)), dim=1), dim=1)
LpMaybeAbsent(lpp, psib) == LogSumExp1(Cat1(lpp, Map(<<"log1m">>, psib)))

\* log_prob = definitely_present * lp_present + maybe_absent * lp_maybe_absent
LogProb(dp, lpp, ma, lpma) ==
    Broadcast(<<"add">>, Broadcast(<<"mul">>, dp, lpp), Broadcast(<<"mul">>, ma, lpma))

\* loss = -torch.mean(log_prob)
Loss(lp) == Neg(Mean(lp))

\* =================================================================
\* State
\* =================================================================
VARIABLES
    n, k, batch_size, n_epoch,  \* the configuration (n, k, params['batch_size'], n_epoch)
    x, p, psi, z, y,            \* the simulated sites, tensors of shape (n, 1)
    gpc,                        \* the statement the data generator has reached
    run,                        \* the DataLoader, the optimizer and the training loop
    twin,                       \* a second run on the same x, y with another ground truth
    lik,                        \* one evaluation of the loop body on concrete numbers
    pmf                         \* the per-site likelihood summed over the counts 0..k

vars == <<n, k, batch_size, n_epoch, x, p, psi, z, y, gpc, run, twin, lik, pmf>>
config == <<n, k, batch_size, n_epoch>>
sites == <<x, p, psi, z, y>>

\* A variable no statement has assigned yet.
Unset == <<>>

\* =================================================================
\* The loop body on concrete numbers (lines 238-251)
\* =================================================================
Columns(S, B) == {Column(xs) : xs \in SeqsOf(S, B)}

\* A minibatch as the loop receives it, with any parameters and any counts.
LikStates ==
    UNION {
        [k : {kk}, net : Params, x_i : Columns(XGrid, B), y_i : Columns(0..kk, B),
         pc : {"masks"}, definitely_present : {Unset}, maybe_absent : {Unset},
         psi_i : {Unset}, p_i : {Unset}, lp_present : {Unset},
         lp_maybe_absent : {Unset}, log_prob : {Unset}, loss : {Unset}]
        : <<kk, B>> \in (0..LikMaxK) \X (1..MaxB)}

\* lines 238-239
LikMasks ==
    /\ lik.pc = "masks"
    /\ lik' = [lik EXCEPT !.definitely_present = DefinitelyPresent(lik.y_i),
                          !.maybe_absent = MaybeAbsent(lik.y_i),
                          !.pc = "forward"]
    /\ UNCHANGED <<config, sites, gpc, run, twin, pmf>>

\* line 242
LikForward ==
    /\ lik.pc = "forward"
    /\ lik' = [lik EXCEPT !.psi_i = Forward(lik.net, lik.x_i).psi,
                          !.p_i = Forward(lik.net, lik.x_i).p,
                          !.pc = "likelihood"]
    /\ UNCHANGED <<config, sites, gpc, run, twin, pmf>>

\* lines 245-249
LikLogProb ==
    /\ lik.pc = "likelihood"
    /\ LET lpp == LpPresent(lik.k, lik.psi_i, lik.p_i, lik.y_i)
           lpma == LpMaybeAbsent(lpp, lik.psi_i)
       IN  lik' = [lik EXCEPT !.lp_present = lpp,
                              !.lp_maybe_absent = lpma,
                              !.log_prob = LogProb(lik.definitely_present, lpp,
                                                   lik.maybe_absent, lpma),
                              !.pc = "loss"]
    /\ UNCHANGED <<config, sites, gpc, run, twin, pmf>>

\* line 251
LikLoss ==
    /\ lik.pc = "loss"
    /\ lik' = [lik EXCEPT !.loss = Loss(lik.log_prob), !.pc = "done"]
    /\ UNCHANGED <<config, sites, gpc, run, twin, pmf>>

LikInit ==
    /\ lik \in LikStates
    /\ n = Unset /\ k = Unset /\ batch_size = Unset /\ n_epoch = Unset
    /\ x = Unset /\ p = Unset /\ psi = Unset /\ z = Unset /\ y = Unset
    /\ gpc = Unset /\ run = Unset /\ twin = Unset /\ pmf = Unset

LikNext == LikMasks \/ LikForward \/ LikLogProb \/ LikLoss

SpecLik == LikInit /\ [][LikNext]_vars

\* Every entry of a column tensor.
ColumnEntries(t) == {t.v[r][1] : r \in 1..Len(t.v)}

\* The log-likelihood of one site as section 4.3 of the specification states it.
SiteLogLik(kk, a, b, yv) ==
    LET present == Add(LogPsi(a), BinomialLogProb(kk, b, yv))
    IN  IF yv > 0 THEN present ELSE LogAddExp(present, Log1mPsi(a))

\* The negative arithmetic mean over the B sites of SiteLogLik.
NegMeanSiteLogLik(kk, psib, pb, yb) ==
    LET B == Len(yb.v)
    IN  Neg(DivBy(SumLog([r \in 1..B |->
                    SiteLogLik(kk, psib.v[r][1], pb.v[r][1], yb.v[r][1])]), B))

\* C1: for every minibatch whose model outputs are probabilities strictly
\* between 0 and 1, the loss the loop computes is the negative mean over the B
\* sites of the per-site log-likelihood: one term per site, built from that
\* site's own psi, p and y, divided by B.
C1_LossIsNegMeanOfSites ==
    (lik.pc = "done" /\ ColumnEntries(lik.psi_i) \cup ColumnEntries(lik.p_i) \subseteq Interior)
        => lik.loss = NegMeanSiteLogLik(lik.k, lik.psi_i, lik.p_i, lik.y_i)

\* The numbers torch.log receives at lines 246-247: psi_i and 1 - psi_i.
TorchLogArguments(psib) == ColumnEntries(psib) \cup {D - a : a \in ColumnEntries(psib)}

\* C6: no logarithm is taken of a probability equal to 0 or 1: once the
\* likelihood has been evaluated, every number handed to torch.log lay strictly
\* between 0 and 1.
C6_NoLogOfZeroOrOne ==
    lik.pc \in {"loss", "done"} => TorchLogArguments(lik.psi_i) \subseteq Interior

\* =================================================================
\* The per-site likelihood summed over the counts 0..k
\* =================================================================
\* The rational a + b in lowest terms.
AddQ(a, b) ==
    LET num == a[1] * b[2] + b[1] * a[2]
        den == a[2] * b[2]
        g == Gcd(num, den)
    IN  <<num \div g, den \div g>>

\* exp(log_prob) of a single site with outputs a/D, b/D and count yv: the loop
\* body of lines 238-249 on a minibatch of one site.
SiteLikelihood(kk, a, b, yv) ==
    LET yb == Column(<<yv>>)
        psib == Column(<<a>>)
        lpp == LpPresent(kk, psib, Column(<<b>>), yb)
        lp == LogProb(DefinitelyPresent(yb), lpp, MaybeAbsent(yb), LpMaybeAbsent(lpp, psib))
    IN  ExpQ(lp.v[1][1])

PmfStates ==
    [k : 0..PmfMaxK, psi : Interior, p : Interior, y : {0}, total : {<<0, 1>>}]

\* Add the likelihood of the next count.
PmfAdd ==
    /\ pmf.y <= pmf.k
    /\ pmf' = [pmf EXCEPT !.total = AddQ(pmf.total, SiteLikelihood(pmf.k, pmf.psi, pmf.p, pmf.y)),
                          !.y = pmf.y + 1]
    /\ UNCHANGED <<config, sites, gpc, run, twin, lik>>

PmfInit ==
    /\ pmf \in PmfStates
    /\ n = Unset /\ k = Unset /\ batch_size = Unset /\ n_epoch = Unset
    /\ x = Unset /\ p = Unset /\ psi = Unset /\ z = Unset /\ y = Unset
    /\ gpc = Unset /\ run = Unset /\ twin = Unset /\ lik = Unset

PmfNext == PmfAdd

SpecPmf == PmfInit /\ [][PmfNext]_vars

\* C2: for one site and any psi, p strictly between 0 and 1 and any k, the
\* likelihoods of the counts y = 0..k sum to exactly 1.
C2_LikelihoodSumsToOne == pmf.y = pmf.k + 1 => pmf.total = <<1, 1>>

\* All counts of a site with k >= 2, psi # 1/2 and p # 1/2 have been summed.
C2_Witness == pmf.y = pmf.k + 1 /\ pmf.k >= 2 /\ pmf.psi # Half /\ pmf.p # Half

\* =================================================================
\* The data generator (lines 42-67)
\* =================================================================
CoefGrid == (0 - MaxCoef)..MaxCoef

\* The tensors of shape (m, 1) whose entry r lies in S[r], S a sequence of m sets.
ColumnsIn(S) ==
    {Column(xs) : xs \in {f \in SeqsOf(UNION {S[r] : r \in 1..Len(S)}, Len(S)) :
                              \A r \in 1..Len(S) : f[r] \in S[r]}}

IsSorted(xs) == \A i \in 1..(Len(xs) - 1) : xs[i] <= xs[i + 1]

\* The multiset of the entries of a sequence.
Count(xs, v) == Cardinality({i \in 1..Len(xs) : xs[i] = v})

\* torch.sort(x)[0]: the ascending rearrangement of the entries of x.
Sort(t) ==
    T1(CHOOSE s \in SeqsOf({t.v[i] : i \in 1..Len(t.v)}, Len(t.v)) :
           IsSorted(s) /\ \A v \in XGrid : Count(s, v) = Count(t.v, v))

\* x.unsqueeze(1): shape (n,) to shape (n, 1).
Unsqueeze1(t) == Column(t.v)

\* torch.sigmoid(c0 + c1 * x + c2 * x**2), entry by entry, scalars broadcast.
Curve(c0, c1, c2, xt) == Map(<<"curve", c0, c1, c2>>, xt)

\* The values Bernoulli(probs = a/D).sample() can return.
BernoulliSupport(a) == IF a = 0 THEN {0} ELSE IF a = D THEN {1} ELSE {0, 1}

\* A generator whose detection probability ignores the latent occupancy.
DetectionProbsWithoutZ(pt, zt) == pt

\* probs = p * z, entry by entry.
DetectionProbs(pt, zt) == Broadcast(<<"times">>, pt, zt)

\* The values Binomial(total_count = kk, probs = a/D).sample() can return.
BinomialSupport(kk, a) == IF a = 0 THEN {0} ELSE IF a = D THEN {kk} ELSE 0..kk

\* line 44
SampleX ==
    /\ gpc = "x"
    /\ x' \in {T1(xs) : xs \in SeqsOf(XGrid, n)}
    /\ gpc' = "sort"
    /\ UNCHANGED <<config, p, psi, z, y, run, twin, lik, pmf>>

\* line 45
SortX ==
    /\ gpc = "sort"
    /\ x' = Sort(x)
    /\ gpc' = "unsqueeze"
    /\ UNCHANGED <<config, p, psi, z, y, run, twin, lik, pmf>>

\* line 46
UnsqueezeX ==
    /\ gpc = "unsqueeze"
    /\ x' = Unsqueeze1(x)
    /\ gpc' = "p"
    /\ UNCHANGED <<config, p, psi, z, y, run, twin, lik, pmf>>

\* lines 63-64: three draws of z_dist, one curve for p
SimulateP ==
    /\ gpc = "p"
    /\ \E c0, c1, c2 \in CoefGrid : p' = Curve(c0, c1, c2, x)
    /\ gpc' = "psi"
    /\ UNCHANGED <<config, x, psi, z, y, run, twin, lik, pmf>>

\* line 65
SimulatePsi ==
    /\ gpc = "psi"
    /\ \E c0, c1, c2 \in CoefGrid : psi' = Curve(c0, c1, c2, x)
    /\ gpc' = "z"
    /\ UNCHANGED <<config, x, p, z, y, run, twin, lik, pmf>>

\* line 66
SampleZ ==
    /\ gpc = "z"
    /\ z' \in ColumnsIn([r \in 1..n |-> BernoulliSupport(psi.v[r][1])])
    /\ gpc' = "y"
    /\ UNCHANGED <<config, x, p, psi, y, run, twin, lik, pmf>>

\* line 67
SampleY ==
    /\ gpc = "y"
    /\ LET probs == DetectionProbs(p, z)
       IN  y' \in ColumnsIn([r \in 1..n |-> BinomialSupport(k, probs.v[r][1])])
    /\ gpc' = "done"
    /\ UNCHANGED <<config, x, p, psi, z, run, twin, lik, pmf>>

\* lines 42-43: n and k are set; n_epoch and params are assigned further down.
GenInit ==
    /\ n \in 1..MaxN /\ k \in 0..MaxK
    /\ batch_size = Unset /\ n_epoch = Unset
    /\ x = Unset /\ p = Unset /\ psi = Unset /\ z = Unset /\ y = Unset
    /\ gpc = "x"
    /\ run = Unset /\ twin = Unset /\ lik = Unset /\ pmf = Unset

GenNext ==
    SampleX \/ SortX \/ UnsqueezeX \/ SimulateP \/ SimulatePsi \/ SampleZ \/ SampleY

SpecGen == GenInit /\ [][GenNext]_vars

\* C3: every simulated site has 0 <= y <= k, and a site whose latent occupancy
\* z is 0 has y = 0.
C3_CountsWithinTrials ==
    gpc = "done" =>
        \A r \in 1..n : /\ 0 <= y.v[r][1] /\ y.v[r][1] <= k
                         /\ (z.v[r][1] = 0 => y.v[r][1] = 0)

\* The generator has finished with an unoccupied site beside an occupied one
\* at which the species was detected.
C3_Witness ==
    /\ gpc = "done"
    /\ \E r, q \in 1..n : z.v[r][1] = 0 /\ z.v[q][1] = 1 /\ y.v[q][1] > 0

\* =================================================================
\* The dataset and the DataLoader (lines 206-211)
\* =================================================================
\* params['num_workers']
NumWorkers == 1

\* Index batches the iterator keeps outstanding: prefetch_factor (2 unless
\* given) for each worker.
Outstanding == 2 * NumWorkers

\* Everything the notebook holds about the sites when the dataset is built.
World == [x |-> x, y |-> y, z |-> z, p |-> p, psi |-> psi]

TensorDataset(a, b) == [tensors |-> <<a, b>>]

\* A dataset built from the latent occupancy in place of the counts.
MakeDatasetFromTruth(w) == TensorDataset(w.x, w.z)

\* line 210
MakeDataset(w) == TensorDataset(w.x, w.y)

\* dataset[i]: row i of every tensor of the dataset.
GetItem(ds, i) == <<ds.tensors[1].v[i], ds.tensors[2].v[i]>>

\* default_collate: the samples stacked tensor by tensor.
Collate(samples) ==
    <<T2([r \in 1..Len(samples) |-> samples[r][1]]),
      T2([r \in 1..Len(samples) |-> samples[r][2]])>>

\* A worker that fetches as many sites as it was asked for, from the top of
\* the dataset.
FetchFromTop(ds, indices) == Collate([r \in 1..Len(indices) |-> GetItem(ds, r)])

\* What the worker does with one batch of indices.
Fetch(ds, indices) == Collate([r \in 1..Len(indices) |-> GetItem(ds, indices[r])])

\* RandomSampler (shuffle = True): the orders one epoch can visit m sites in.
Perms(m) == {s \in SeqsOf(1..m, m) : \A i, j \in 1..m : s[i] = s[j] => i = j}

\* A sampler that ignores batch_size and hands out all that is left at once.
BatchIndicesAllAtOnce(perm, taken) == SubSeq(perm, taken + 1, Len(perm))

\* A sampler with drop_last = True.
BatchIndicesDropLast(perm, taken) ==
    IF taken + batch_size <= Len(perm)
    THEN SubSeq(perm, taken + 1, taken + batch_size)
    ELSE <<>>

\* BatchSampler with drop_last = False: the next batch_size indices of the
\* sampler, fewer when fewer are left, none when it is exhausted.
BatchIndices(perm, taken) == SubSeq(perm, taken + 1, Min(taken + batch_size, Len(perm)))

\* _try_put_index: hand the worker the next batch of indices unless enough
\* are outstanding or the sampler is exhausted.  sent and received record the
\* index batches handed out and the data handed to the loop in this epoch.
TryPutIndex(it) ==
    LET indices == BatchIndices(it.perm, it.taken)
    IN  IF it.send_idx - it.rcvd_idx >= Outstanding \/ indices = <<>>
        THEN it
        ELSE [it EXCEPT !.index_queue = Append(@, [idx |-> it.send_idx, indices |-> indices]),
                        !.taken = @ + Len(indices),
                        !.send_idx = @ + 1,
                        !.sent = Append(@, indices)]

NoIterator ==
    [perm |-> <<>>, taken |-> 0, index_queue |-> <<>>, data_queue |-> <<>>,
     send_idx |-> 0, rcvd_idx |-> 0, sent |-> <<>>, received |-> <<>>]

\* iter(dataloader): a fresh sampler and the first index batches put.
NewIterator(perm) == TryPutIndex(TryPutIndex([NoIterator EXCEPT !.perm = perm]))

\* A loop that stops one pass early.
InRangeButLast(i, m) == 0 <= i /\ i < m - 1

\* range(m) still has the value i.
InRange(i, m) == 0 <= i /\ i < m

\* =================================================================
\* The training loop (lines 227-254)
\* =================================================================
\* The parameters and everything computed from them are kept as terms: the
\* parameters are the sequence of gradients the optimizer has applied to the
\* initial parameters of line 149, net(x_i) is the pair (parameters, x_i), and
\* so on.  Two terms are equal only when they are built in the same way from
\* the same inputs, so what holds of the terms holds for every initial
\* parameter vector and every optimizer that is a function of its inputs.
InitialParams == <<>>

\* line 242
NetTerm(params, xb) ==
    [psi |-> [out |-> 0, params |-> params, x |-> xb],
     p   |-> [out |-> 1, params |-> params, x |-> xb]]

\* lines 245-251
LossTerm(kk, psib, pb, yb, dp, ma) ==
    [k |-> kk, psi |-> psib, p |-> pb, y |-> yb,
     definitely_present |-> dp, maybe_absent |-> ma]

\* The gradient loss.backward() adds to the parameters' .grad: the inputs of
\* the loss and the number of updates in the parameters it was evaluated at.
Gradient(loss) ==
    [k |-> loss.k, x |-> loss.psi.x, y |-> loss.y,
     definitely_present |-> loss.definitely_present, maybe_absent |-> loss.maybe_absent,
     at |-> <<Len(loss.psi.params), Len(loss.p.params)>>]

NoCount == [next |-> 0, zero_grad |-> 0, forward |-> 0, loss |-> 0,
            backward |-> 0, step |-> 0, append |-> 0]

\* The state after line 211; count records how often each step has run.
InitialRun ==
    [pc |-> "epoch", i |-> 0, it |-> NoIterator,
     params |-> InitialParams, grad |-> <<>>,
     xy |-> Unset, x_i |-> Unset, y_i |-> Unset,
     definitely_present |-> Unset, maybe_absent |-> Unset,
     psi_i |-> Unset, p_i |-> Unset, loss |-> Unset,
     running_loss |-> <<>>, count |-> NoCount]

\* lines 227-228: the next epoch starts and the loader's iterator is created
DoEpochStart(r, perm) == [r EXCEPT !.it = NewIterator(perm), !.pc = "next"]

\* the worker process: one index batch taken, fetched and put on the data queue
DoWorkerFetch(r, ds) ==
    LET task == Head(r.it.index_queue)
    IN  [r EXCEPT !.it.index_queue = Tail(@),
                  !.it.data_queue = Append(@, [idx |-> task.idx, data |-> Fetch(ds, task.indices)])]

\* line 228, _next_data: the batch the loop is waiting for is taken from the
\* data queue and another index batch is put
DoNextBatch(r) ==
    LET m == Head(r.it.data_queue)
    IN  [r EXCEPT !.it = TryPutIndex([@ EXCEPT !.data_queue = Tail(@),
                                               !.rcvd_idx = @ + 1,
                                               !.received = Append(@, m.data)]),
                  !.xy = m.data,
                  !.pc = "load",
                  !.count.next = @ + 1]

\* line 228, StopIteration: nothing is outstanding
DoEpochEnd(r) == [r EXCEPT !.i = @ + 1, !.pc = "epoch"]

\* lines 230-232
DoLoad(r) == [r EXCEPT !.x_i = r.xy[1], !.y_i = r.xy[2], !.pc = "zero_grad"]

\* line 235
DoZeroGrad(r) == [r EXCEPT !.grad = <<>>, !.pc = "masks", !.count.zero_grad = @ + 1]

\* lines 238-239
DoMasks(r) ==
    [r EXCEPT !.definitely_present = DefinitelyPresent(r.y_i),
              !.maybe_absent = MaybeAbsent(r.y_i),
              !.pc = "forward"]

\* line 242
DoForward(r) ==
    LET out == NetTerm(r.params, r.x_i)
    IN  [r EXCEPT !.psi_i = out.psi, !.p_i = out.p, !.pc = "loss", !.count.forward = @ + 1]

\* lines 245-251
DoLoss(r) ==
    [r EXCEPT !.loss = LossTerm(k, r.psi_i, r.p_i, r.y_i, r.definitely_present, r.maybe_absent),
              !.pc = "backward",
              !.count.loss = @ + 1]

\* line 252
DoBackward(r) ==
    [r EXCEPT !.grad = Append(@, Gradient(r.loss)), !.pc = "step", !.count.backward = @ + 1]

\* line 253
DoStep(r) == [r EXCEPT !.params = Append(@, r.grad), !.pc = "append", !.count.step = @ + 1]

\* line 254
DoAppend(r) ==
    [r EXCEPT !.running_loss = Append(@, r.loss), !.pc = "next", !.count.append = @ + 1]

\* range(n_epoch) is exhausted
DoFinish(r) == [r EXCEPT !.pc = "done"]

CanFetch(r) == r.it.index_queue # <<>>
CanNext(r) ==
    /\ r.pc = "next"
    /\ r.it.data_queue # <<>>
    /\ Head(r.it.data_queue).idx = r.it.rcvd_idx
CanEnd(r) == r.pc = "next" /\ r.it.rcvd_idx >= r.it.send_idx

EpochStart ==
    /\ run.pc = "epoch" /\ InRange(run.i, n_epoch)
    /\ \E perm \in Perms(n) : run' = DoEpochStart(run, perm)
    /\ UNCHANGED <<config, sites, gpc, twin, lik, pmf>>

WorkerFetch ==
    /\ CanFetch(run)
    /\ run' = DoWorkerFetch(run, MakeDataset(World))
    /\ UNCHANGED <<config, sites, gpc, twin, lik, pmf>>

NextBatch ==
    /\ CanNext(run)
    /\ run' = DoNextBatch(run)
    /\ UNCHANGED <<config, sites, gpc, twin, lik, pmf>>

EpochEnd ==
    /\ CanEnd(run)
    /\ run' = DoEpochEnd(run)
    /\ UNCHANGED <<config, sites, gpc, twin, lik, pmf>>

LoadBatch ==
    /\ run.pc = "load"
    /\ run' = DoLoad(run)
    /\ UNCHANGED <<config, sites, gpc, twin, lik, pmf>>

ZeroGrad ==
    /\ run.pc = "zero_grad"
    /\ run' = DoZeroGrad(run)
    /\ UNCHANGED <<config, sites, gpc, twin, lik, pmf>>

Masks ==
    /\ run.pc = "masks"
    /\ run' = DoMasks(run)
    /\ UNCHANGED <<config, sites, gpc, twin, lik, pmf>>

ForwardPass ==
    /\ run.pc = "forward"
    /\ run' = DoForward(run)
    /\ UNCHANGED <<config, sites, gpc, twin, lik, pmf>>

ComputeLoss ==
    /\ run.pc = "loss"
    /\ run' = DoLoss(run)
    /\ UNCHANGED <<config, sites, gpc, twin, lik, pmf>>

Backward ==
    /\ run.pc = "backward"
    /\ run' = DoBackward(run)
    /\ UNCHANGED <<config, sites, gpc, twin, lik, pmf>>

OptimizerStep ==
    /\ run.pc = "step"
    /\ run' = DoStep(run)
    /\ UNCHANGED <<config, sites, gpc, twin, lik, pmf>>

AppendLoss ==
    /\ run.pc = "append"
    /\ run' = DoAppend(run)
    /\ UNCHANGED <<config, sites, gpc, twin, lik, pmf>>

Finish ==
    /\ run.pc = "epoch" /\ ~InRange(run.i, n_epoch)
    /\ run' = DoFinish(run)
    /\ UNCHANGED <<config, sites, gpc, twin, lik, pmf>>

\* The sorted covariates of m sites; on the real line no two sites coincide.
Covariates(m) == {Column(xs) : xs \in {s \in SeqsOf(XGrid, m) :
                                            \A i \in 1..(m - 1) : s[i] < s[i + 1]}}

\* The configuration the notebook's literals give, the sites the generator
\* has left (here with every site occupied and both true curves flat, which
\* allows every count), and the loader and optimizer of lines 185-211.
\* DataLoader(...) has raised for a batch_size below 1.
Init ==
    /\ n \in 1..MaxN /\ k \in 0..MaxK
    /\ batch_size \in 1..(MaxN + 1) /\ n_epoch \in (0 - 1)..MaxEpoch
    /\ x \in Covariates(n)
    /\ p = Curve(0, 0, 0, x) /\ psi = Curve(0, 0, 0, x)
    /\ z = Column([r \in 1..n |-> 1])
    /\ y \in Columns(0..k, n)
    /\ gpc = "done"
    /\ run = InitialRun
    /\ twin = Unset /\ lik = Unset /\ pmf = Unset

Next ==
    \/ EpochStart \/ WorkerFetch \/ NextBatch \/ EpochEnd
    \/ LoadBatch \/ ZeroGrad \/ Masks \/ ForwardPass \/ ComputeLoss
    \/ Backward \/ OptimizerStep \/ AppendLoss \/ Finish

Spec == Init /\ [][Next]_vars

\* -----------------------------------------------------------------
\* Properties of the training loop
\* -----------------------------------------------------------------
IsPrefix(s, t) == Len(s) <= Len(t) /\ SubSeq(t, 1, Len(s)) = s

\* The number of minibatches of one epoch: n / batch_size rounded up.
BatchesPerEpoch == (n + batch_size - 1) \div batch_size

\* The trace has one entry for every parameter update; the update of line 253
\* whose loss line 254 has not appended yet is the one update it lacks.
TraceCountsUpdates ==
    Len(run.running_loss) = run.count.step - (IF run.pc = "append" THEN 1 ELSE 0)

TraceCompleteAtEnd ==
    (run.pc = "done" /\ n_epoch >= 0) => Len(run.running_loss) = n_epoch * BatchesPerEpoch

TraceOnlyGrows ==
    /\ IsPrefix(run.running_loss, run.running_loss')
    /\ Len(run.running_loss') <= Len(run.running_loss) + 1

SitesInBatch(j) ==
    IF j < BatchesPerEpoch THEN batch_size ELSE n - batch_size * (BatchesPerEpoch - 1)

InvalidConfig ==
    n <= 0 \/ k <= 0 \/ batch_size <= 0 \/ batch_size > n \/ n_epoch < 0

\* C7: under an invalid configuration the run fails before any computation:
\* no forward pass is run and no parameter update is performed.
C7_InvalidConfigFailsFirst ==
    InvalidConfig => (run.count.forward = 0 /\ run.count.step = 0)

\* The steps of one minibatch run in program order, and each minibatch is
\* finished before the next is taken.
StepsInOrder ==
    LET c == run.count
    IN  /\ c.next >= c.zero_grad /\ c.zero_grad >= c.forward /\ c.forward >= c.loss
        /\ c.loss >= c.backward /\ c.backward >= c.step /\ c.step >= c.append
        /\ c.append >= c.next - 1

\* The sites of minibatch j as the epoch's shuffle order and batch_size fix them.
SitesOfBatch(j) ==
    LET lo == (j - 1) * batch_size
        hi == Min(lo + batch_size, n)
    IN  <<T2([r \in 1..(hi - lo) |-> x.v[run.it.perm[lo + r]]]),
          T2([r \in 1..(hi - lo) |-> y.v[run.it.perm[lo + r]]])>>

\* Whatever the worker has fetched ahead, the loop receives the minibatches
\* in sampler order with the sampler's sites.
WorkerKeepsBatches ==
    /\ \A j \in 1..Len(run.it.received) : run.it.received[j] = SitesOfBatch(j)
    /\ \A j \in 1..Len(run.it.data_queue) :
           run.it.data_queue[j].idx = run.it.rcvd_idx + j - 1

DatasetUntouched == x' = x /\ y' = y

\* C9: for every minibatch zero_grad, forward, loss, backward, step and append
\* run in that order and are all done before the next minibatch is taken; the
\* worker changes neither the sites of a minibatch nor the order in which
\* minibatches reach the loop; no step writes x or y.
C9_SequentialSteps ==
    [](StepsInOrder /\ WorkerKeepsBatches) /\ [][DatasetUntouched]_vars

\* The worker has a minibatch ready while the loop is still in the backward
\* pass of the one before, in an epoch whose shuffle moved the first site.
C9_Witness ==
    /\ run.pc = "backward" /\ run.it.data_queue # <<>>
    /\ run.count.append >= 1
    /\ run.it.perm[1] # 1

\* The rows of the minibatches of this epoch that belong to site i.
Deliveries(i) ==
    {jr \in (1..Len(run.it.received)) \X (1..n) :
        /\ jr[2] <= Rows(run.it.received[jr[1]][1])
        /\ run.it.received[jr[1]][1].v[jr[2]] = x.v[i]}

\* Every row handed to the loop is some site's x with that site's y.
RowsArePairs ==
    \A j \in 1..Len(run.it.received) :
        \A r \in 1..Rows(run.it.received[j][1]) :
            \E i \in 1..n : /\ run.it.received[j][1].v[r] = x.v[i]
                            /\ run.it.received[j][2].v[r] = y.v[i]

\* The loader's iterator has raised StopIteration, or is about to.
EpochOver == run.it.perm # <<>> /\ run.it.rcvd_idx >= run.it.send_idx

EpochIsPartition ==
    /\ \A i \in 1..n : Cardinality(Deliveries(i)) <= 1
    /\ EpochOver => \A i \in 1..n : Cardinality(Deliveries(i)) = 1

LoopHoldsPair ==
    run.pc \in {"zero_grad", "masks", "forward", "loss", "backward", "step", "append"} =>
        <<run.x_i, run.y_i>> = run.it.received[Len(run.it.received)]

\* C10: within an epoch no site is handed to the loop twice, and when the
\* epoch is over every site has been handed over exactly once, the sites of a
\* final short minibatch included; every row handed over is a site's x with
\* the same site's y, and so are x_i and y_i; training never changes x or y.
C10_EpochPartition ==
    [](EpochIsPartition /\ RowsArePairs /\ LoopHoldsPair) /\ [][x' = x /\ y' = y]_vars

\* A second epoch is over whose shuffle differs from sorted order and whose
\* last minibatch was short, with sites of different counts.
C10_Witness ==
    /\ EpochOver /\ run.i = 1 /\ run.pc = "next"
    /\ batch_size < n /\ n % batch_size # 0
    /\ run.it.perm[1] # 1
    /\ \E i, j \in 1..n : y.v[i] # y.v[j]

\* =================================================================
\* Two runs on the same data with different ground truth
\* =================================================================
\* The response curves the generator can draw over the covariates xt.
Curves(xt) == {Curve(c[1], c[2], c[3], xt) : c \in CoefGrid \X CoefGrid \X CoefGrid}

\* The ground truth (z and the two curves) the generator can have had when it
\* left the counts yt.
Truths(xt, yt, kk) ==
    {t \in [z : Columns({0, 1}, Len(xt.v)), p : Curves(xt), psi : Curves(xt)] :
        \A r \in 1..Len(xt.v) :
            /\ t.z.v[r][1] \in BernoulliSupport(t.psi.v[r][1])
            /\ yt.v[r][1] \in BinomialSupport(kk, DetectionProbs(t.p, t.z).v[r][1])}

\* The same, for a generator whose coefficient draws for psi repeated those
\* for p.
TwinTruths(xt, yt, kk) == {t \in Truths(xt, yt, kk) : t.p = t.psi}

TwinWorld == [x |-> x, y |-> y, z |-> twin.z, p |-> twin.p, psi |-> twin.psi]

\* The steps of the loop body, lines 230-254.
BodySteps == {"load", "zero_grad", "masks", "forward", "loss", "backward", "step", "append"}

DoBody(r) ==
    CASE r.pc = "load"      -> DoLoad(r)
      [] r.pc = "zero_grad" -> DoZeroGrad(r)
      [] r.pc = "masks"     -> DoMasks(r)
      [] r.pc = "forward"   -> DoForward(r)
      [] r.pc = "loss"      -> DoLoss(r)
      [] r.pc = "backward"  -> DoBackward(r)
      [] r.pc = "step"      -> DoStep(r)
      [] r.pc = "append"    -> DoAppend(r)

\* Both runs take the same step, with the same shuffle.
BothEpochStart ==
    /\ run.pc = "epoch" /\ twin.run.pc = "epoch"
    /\ InRange(run.i, n_epoch) /\ InRange(twin.run.i, n_epoch)
    /\ \E perm \in Perms(n) :
           /\ run' = DoEpochStart(run, perm)
           /\ twin' = [twin EXCEPT !.run = DoEpochStart(@, perm)]
    /\ UNCHANGED <<config, sites, gpc, lik, pmf>>

BothWorkerFetch ==
    /\ CanFetch(run) /\ CanFetch(twin.run)
    /\ run' = DoWorkerFetch(run, MakeDataset(World))
    /\ twin' = [twin EXCEPT !.run = DoWorkerFetch(@, MakeDataset(TwinWorld))]
    /\ UNCHANGED <<config, sites, gpc, lik, pmf>>

BothNextBatch ==
    /\ CanNext(run) /\ CanNext(twin.run)
    /\ run' = DoNextBatch(run)
    /\ twin' = [twin EXCEPT !.run = DoNextBatch(@)]
    /\ UNCHANGED <<config, sites, gpc, lik, pmf>>

BothEpochEnd ==
    /\ CanEnd(run) /\ CanEnd(twin.run)
    /\ run' = DoEpochEnd(run)
    /\ twin' = [twin EXCEPT !.run = DoEpochEnd(@)]
    /\ UNCHANGED <<config, sites, gpc, lik, pmf>>

BothBody ==
    /\ run.pc \in BodySteps /\ twin.run.pc \in BodySteps
    /\ run' = DoBody(run)
    /\ twin' = [twin EXCEPT !.run = DoBody(@)]
    /\ UNCHANGED <<config, sites, gpc, lik, pmf>>

BothFinish ==
    /\ run.pc = "epoch" /\ twin.run.pc = "epoch"
    /\ ~InRange(run.i, n_epoch) /\ ~InRange(twin.run.i, n_epoch)
    /\ run' = DoFinish(run)
    /\ twin' = [twin EXCEPT !.run = DoFinish(@)]
    /\ UNCHANGED <<config, sites, gpc, lik, pmf>>

\* Two notebooks with the same x, y, k, configuration and initial parameters;
\* the second was simulated from another ground truth.
TwinInit ==
    /\ n \in 1..TwinMaxN /\ k \in 0..MaxK
    /\ batch_size \in 1..(TwinMaxN + 1) /\ n_epoch \in (0 - 1)..MaxEpoch
    /\ x \in Covariates(n)
    /\ y \in Columns(0..k, n)
    /\ p = Curve(0, 0, 0, x) /\ psi = Curve(0, 0, 0, x)
    /\ z = Column([r \in 1..n |-> 1])
    /\ gpc = "done"
    /\ run = InitialRun
    /\ \E t \in TwinTruths(x, y, k) :
           /\ t # [z |-> z, p |-> p, psi |-> psi]
           /\ twin = [z |-> t.z, p |-> t.p, psi |-> t.psi, run |-> InitialRun]
    /\ lik = Unset /\ pmf = Unset

TwinNext ==
    \/ BothEpochStart \/ BothWorkerFetch \/ BothNextBatch \/ BothEpochEnd
    \/ BothBody \/ BothFinish

SpecTwin == TwinInit /\ [][TwinNext]_vars

\* C8: two runs with the same x, y, k, initial parameters and shuffle order
\* whose ground truth (z, true psi, true p) differs have, at every step, the
\* same trace of losses, the same parameters and the same gradients.
C8_GroundTruthUnused ==
    /\ run.running_loss = twin.run.running_loss
    /\ run.params = twin.run.params
    /\ run.grad = twin.run.grad
    /\ run.loss = twin.run.loss

\* Both runs have finished two epochs although latent occupancy and both true
\* curves differ between them.
C8_Witness ==
    /\ run.pc = "done" /\ twin.run.pc = "done"
    /\ Len(run.running_loss) >= 2 /\ n_epoch = 2
    /\ twin.z # z /\ twin.psi # psi /\ twin.p # p

====
